---- MODULE Spec2Model ----
(***************************************************************************)
(* Remodeling Job Tracker v1.1 (src/app.py): four SQLite tables            *)
(* (projects, tasks, expenses, incomes), the Streamlit form handlers that  *)
(* insert into them, the listings and the Reports dashboard.               *)
(*                                                                         *)
(* Text is a sequence of one-character strings, so that strip(), the       *)
(* case-insensitive pattern search and SQLite's TEXT ordering are computed *)
(* character by character.  Money is counted in cents and hours in half    *)
(* hours (the widgets' steps are 0.01 and 0.5).  Columns that the code     *)
(* stores verbatim and never reads back in a condition (client_name,       *)
(* address, start_date, target_date, notes, description, due_date,         *)
(* category, vendor, payment_method, receipt_filename) are left out of the *)
(* rows.                                                                   *)
(***************************************************************************)
EXTENDS Integers, Sequences, FiniteSets, TLC

VARIABLES
    projects,   \* rows of table projects
    tasks,      \* rows of table tasks
    expenses,   \* rows of table expenses
    incomes,    \* rows of table incomes
    seq,        \* sqlite_sequence: per table, the largest rowid ever issued
    last,       \* the last request: what was submitted and what came back
    issued      \* history: every project id ever generated

db == <<projects, tasks, expenses, incomes, seq, issued>>
vars == <<projects, tasks, expenses, incomes, seq, last, issued>>

(* ------------------------------ bounds -------------------------------- *)
MaxProjects == 2
MaxProjectIds == 3
MaxRows == 3
MaxTasks == 4
MaxExpenses == 2
MaxIncomes == 2

(* ------------------------------ helpers ------------------------------- *)
Ids(rows) == {r.id : r \in rows}

MaxOf(S) == IF S = {} THEN 0 ELSE CHOOSE m \in S : \A x \in S : x <= m

Whitespace == {" ", "\t"}

RECURSIVE LStrip(_)
LStrip(s) == IF s # <<>> /\ Head(s) \in Whitespace THEN LStrip(Tail(s)) ELSE s

RECURSIVE RStrip(_)
RStrip(s) ==
    IF s # <<>> /\ s[Len(s)] \in Whitespace
    THEN RStrip(SubSeq(s, 1, Len(s) - 1))
    ELSE s

\* str.strip()
Strip(s) == RStrip(LStrip(s))

(* ------------------------------ storage ------------------------------- *)
\* get_conn: PRAGMA foreign_keys = ON on every connection
ForeignKeysOff == FALSE
ForeignKeysOn == TRUE

\* the ON DELETE clause of each child table's FOREIGN KEY
OnDeleteIncomesNoAction ==
    [tasks |-> "CASCADE", expenses |-> "CASCADE", incomes |-> "NO ACTION"]
OnDelete ==
    [tasks |-> "CASCADE", expenses |-> "CASCADE", incomes |-> "CASCADE"]

\* INTEGER PRIMARY KEY without AUTOINCREMENT: one more than the largest rowid
\* now in the table
RowidNoAutoincrement(rows, s) == MaxOf(Ids(rows)) + 1
\* INTEGER PRIMARY KEY AUTOINCREMENT: one more than the largest rowid the
\* table has ever held
NextRowid(rows, s) ==
    LET m == MaxOf(Ids(rows)) IN (IF m > s THEN m ELSE s) + 1

\* the FOREIGN KEY check of an insert into a child table
FKOk(pid) == ~ForeignKeysOn \/ pid \in Ids(projects)

\* execute("INSERT INTO projects ...")
ExecInsertProject(f) ==
    LET id == NextRowid(projects, seq.projects) IN
    /\ projects' = projects \cup {[id |-> id, name |-> f.name, status |-> f.status]}
    /\ seq' = [seq EXCEPT !.projects = id]
    /\ issued' = issued \cup {id}
    /\ UNCHANGED <<tasks, expenses, incomes>>

\* execute("INSERT INTO tasks ..."); an IntegrityError leaves the table alone
ExecInsertTask(pid, f) ==
    LET id == NextRowid(tasks, seq.tasks) IN
    /\ IF FKOk(pid)
       THEN /\ tasks' = tasks \cup
                    {[id |-> id, project_id |-> pid, title |-> f.title,
                      status |-> f.status, assignee |-> f.assignee,
                      hours_est |-> f.hours_est, hours_spent |-> f.hours_spent]}
            /\ seq' = [seq EXCEPT !.tasks = id]
       ELSE UNCHANGED <<tasks, seq>>
    /\ UNCHANGED <<projects, expenses, incomes, issued>>

\* execute("INSERT INTO expenses ...")
ExecInsertExpense(pid, amount, datetext) ==
    LET id == NextRowid(expenses, seq.expenses) IN
    /\ IF FKOk(pid)
       THEN /\ expenses' = expenses \cup
                    {[id |-> id, project_id |-> pid, amount |-> amount,
                      date |-> datetext]}
            /\ seq' = [seq EXCEPT !.expenses = id]
       ELSE UNCHANGED <<expenses, seq>>
    /\ UNCHANGED <<projects, tasks, incomes, issued>>

\* execute("INSERT INTO incomes ...")
ExecInsertIncome(pid, amount, datetext) ==
    LET id == NextRowid(incomes, seq.incomes) IN
    /\ IF FKOk(pid)
       THEN /\ incomes' = incomes \cup
                    {[id |-> id, project_id |-> pid, amount |-> amount,
                      date |-> datetext]}
            /\ seq' = [seq EXCEPT !.incomes = id]
       ELSE UNCHANGED <<incomes, seq>>
    /\ UNCHANGED <<projects, tasks, expenses, issued>>

\* the rows of a child table that reference project pid
ChildrenOf(rows, pid) == {r \in rows : r.project_id = pid}

\* a child table after the parent row pid is deleted, under its ON DELETE clause
AfterParentDelete(rows, action, pid) ==
    IF action = "CASCADE" THEN rows \ ChildrenOf(rows, pid) ELSE rows

\* whether deleting project pid violates a FOREIGN KEY whose clause does not cascade
DeleteBlocked(pid) ==
    \/ OnDelete.tasks # "CASCADE" /\ ChildrenOf(tasks, pid) # {}
    \/ OnDelete.expenses # "CASCADE" /\ ChildrenOf(expenses, pid) # {}
    \/ OnDelete.incomes # "CASCADE" /\ ChildrenOf(incomes, pid) # {}

\* execute("DELETE FROM projects WHERE id=?") against the schema of init_db.
\* No form of the app issues it; it is the storage operation the schema's
\* ON DELETE CASCADE clauses are written for.
ExecDeleteProject(pid) ==
    /\ UNCHANGED <<seq, issued>>
    /\ IF ~ForeignKeysOn
       THEN /\ projects' = {p \in projects : p.id # pid}
            /\ UNCHANGED <<tasks, expenses, incomes>>
       ELSE IF DeleteBlocked(pid)
       THEN UNCHANGED <<projects, tasks, expenses, incomes>>
       ELSE /\ projects' = {p \in projects : p.id # pid}
            /\ tasks' = AfterParentDelete(tasks, OnDelete.tasks, pid)
            /\ expenses' = AfterParentDelete(expenses, OnDelete.expenses, pid)
            /\ incomes' = AfterParentDelete(incomes, OnDelete.incomes, pid)

DeleteRaises(pid) == ForeignKeysOn /\ DeleteBlocked(pid)

(* ------------------------------- dates -------------------------------- *)
DigitChar == <<"0", "1", "2", "3", "4", "5", "6", "7", "8", "9">>

RECURSIVE Decimal(_)
Decimal(n) ==
    IF n < 10 THEN <<DigitChar[n + 1]>>
    ELSE Decimal(n \div 10) \o <<DigitChar[(n % 10) + 1]>>

RECURSIVE ZeroPad(_, _)
ZeroPad(s, w) == IF Len(s) >= w THEN s ELSE ZeroPad(<<"0">> \o s, w)

\* a date printed without leading zeros: 2024-9-5
DateStrUnpadded(d) ==
    Decimal(d.y) \o <<"-">> \o Decimal(d.m) \o <<"-">> \o Decimal(d.d)
\* str(date): ISO 8601, YYYY-MM-DD
DateStr(d) ==
    ZeroPad(Decimal(d.y), 4) \o <<"-">> \o ZeroPad(Decimal(d.m), 2)
        \o <<"-">> \o ZeroPad(Decimal(d.d), 2)

\* the byte of each character a date text holds
CharCode(c) ==
    IF c = "-" THEN 45 ELSE 47 + (CHOOSE k \in 1..10 : DigitChar[k] = c)

\* SQLite's BINARY collation of TEXT: bytewise, a proper prefix first
RECURSIVE TextLess(_, _)
TextLess(a, b) ==
    IF b = <<>> THEN FALSE
    ELSE IF a = <<>> THEN TRUE
    ELSE IF Head(a) # Head(b) THEN CharCode(Head(a)) < CharCode(Head(b))
    ELSE TextLess(Tail(a), Tail(b))

(* --------------------------- form handlers ---------------------------- *)
\* `not name.strip()` without the strip
MissingUnstripped(text) == text = <<>>
\* `not name.strip()`, `not title.strip()`
Missing(text) == Strip(text) = <<>>

\* the "add_project" form, submitted with the widget values f
AddProject(f) ==
    IF Missing(f.name)
    THEN /\ last' = [op |-> "add_project", pid |-> 0, input |-> f,
                     msg |-> "Project name is required."]
         /\ UNCHANGED db
    ELSE /\ ExecInsertProject(f)
         /\ last' = [op |-> "add_project", pid |-> 0, input |-> f,
                     msg |-> "Project added."]

\* project_selectbox: the options are the projects now in the table, and the
\* forms below it are shown `if project_id`
Selectable(pid) == pid \in Ids(projects) /\ pid # 0

\* the "add_task" form; both hours widgets have min_value=0.0
AddTask(pid, f) ==
    /\ Selectable(pid)
    /\ f.hours_est >= 0 /\ f.hours_spent >= 0
    /\ IF Missing(f.title)
       THEN /\ last' = [op |-> "add_task", pid |-> pid, input |-> f,
                        msg |-> "Task title required."]
            /\ UNCHANGED db
       ELSE /\ ExecInsertTask(pid, f)
            /\ last' = [op |-> "add_task", pid |-> pid, input |-> f,
                        msg |-> IF FKOk(pid) THEN "Task added." ELSE "IntegrityError"]

\* the "add_expense" form; the amount widget has min_value=0.0
AddExpense(pid, f) ==
    /\ Selectable(pid)
    /\ f.amount >= 0
    /\ ExecInsertExpense(pid, f.amount, DateStr(f.date))
    /\ last' = [op |-> "add_expense", pid |-> pid, input |-> f,
                msg |-> IF FKOk(pid) THEN "Expense added." ELSE "IntegrityError"]

\* the "add_income" form; the amount widget has min_value=0.0
AddIncome(pid, f) ==
    /\ Selectable(pid)
    /\ f.amount >= 0
    /\ ExecInsertIncome(pid, f.amount, DateStr(f.date))
    /\ last' = [op |-> "add_income", pid |-> pid, input |-> f,
                msg |-> IF FKOk(pid) THEN "Income added." ELSE "IntegrityError"]

\* the DELETE statement run on the database
DeleteProject(pid) ==
    /\ ExecDeleteProject(pid)
    /\ last' = [op |-> "delete_project", pid |-> pid, input |-> <<>>,
                msg |-> IF DeleteRaises(pid) THEN "IntegrityError" ELSE "ok"]

(* --------------------- the create operations alone --------------------- *)
\* execute() called with the INSERT statements and any parameters, without
\* the forms in front of it
StorageInsertProject(f) ==
    /\ ExecInsertProject(f)
    /\ last' = [op |-> "insert_project", pid |-> 0, input |-> f, msg |-> "ok"]

StorageInsertTask(pid, f) ==
    /\ ExecInsertTask(pid, f)
    /\ last' = [op |-> "insert_task", pid |-> pid, input |-> f,
                msg |-> IF FKOk(pid) THEN "ok" ELSE "IntegrityError"]

StorageInsertExpense(pid, f) ==
    /\ ExecInsertExpense(pid, f.amount, DateStr(f.date))
    /\ last' = [op |-> "insert_expense", pid |-> pid, input |-> f,
                msg |-> IF FKOk(pid) THEN "ok" ELSE "IntegrityError"]

StorageInsertIncome(pid, f) ==
    /\ ExecInsertIncome(pid, f.amount, DateStr(f.date))
    /\ last' = [op |-> "insert_income", pid |-> pid, input |-> f,
                msg |-> IF FKOk(pid) THEN "ok" ELSE "IntegrityError"]

(* ------------------------------ listings ------------------------------ *)
\* ORDER BY id DESC
RECURSIVE OrderByIdDesc(_)
OrderByIdDesc(rows) ==
    IF rows = {} THEN <<>>
    ELSE LET r == CHOOSE x \in rows : \A y \in rows : y.id <= x.id
         IN <<r>> \o OrderByIdDesc(rows \ {r})

\* whether row a sorts before row b under ORDER BY date DESC, id DESC
ComesFirst(a, b) ==
    \/ TextLess(b.date, a.date)
    \/ a.date = b.date /\ a.id > b.id

RECURSIVE OrderByDateDescIdDesc(_)
OrderByDateDescIdDesc(rows) ==
    IF rows = {} THEN <<>>
    ELSE LET r == CHOOSE x \in rows : \A y \in rows \ {x} : ComesFirst(x, y)
         IN <<r>> \o OrderByDateDescIdDesc(rows \ {r})

\* a SELECT without ORDER BY: the table is scanned in rowid order
RECURSIVE InRowidOrder(_)
InRowidOrder(rows) ==
    IF rows = {} THEN <<>>
    ELSE LET r == CHOOSE x \in rows : \A y \in rows : x.id <= y.id
         IN <<r>> \o InRowidOrder(rows \ {r})

\* "SELECT * FROM projects ORDER BY id DESC"
ListProjects(P) == OrderByIdDesc(P)

UpperCase == <<"A", "B", "C", "D", "E", "F", "G", "H", "I", "J", "K", "L", "M",
               "N", "O", "P", "Q", "R", "S", "T", "U", "V", "W", "X", "Y", "Z">>
LowerCase == <<"a", "b", "c", "d", "e", "f", "g", "h", "i", "j", "k", "l", "m",
               "n", "o", "p", "q", "r", "s", "t", "u", "v", "w", "x", "y", "z">>

Lower(c) ==
    IF \E k \in 1..26 : UpperCase[k] = c
    THEN LowerCase[CHOOSE k \in 1..26 : UpperCase[k] = c]
    ELSE c

\* re.match of the pattern at the start of the text, ignoring case.  Of the
\* regular expression syntax the pattern characters are the literals and
\* the dot, which matches any character but a newline.
RECURSIVE MatchHere(_, _)
MatchHere(pat, text) ==
    IF pat = <<>> THEN TRUE
    ELSE IF text = <<>> THEN FALSE
    ELSE /\ \/ Head(pat) = "." /\ Head(text) # "\n"
            \/ Lower(Head(pat)) = Lower(Head(text))
         /\ MatchHere(Tail(pat), Tail(text))

\* Series.str.contains(pat, case=False): regex=True is the default, so the
\* filter text is searched as a regular expression
StrContains(text, pat) ==
    \E i \in 1..(Len(text) + 1) : MatchHere(pat, SubSeq(text, i, Len(text)))

\* the Tasks tab listing of table T for project pid under the two filters
TasksListing(T, pid, status_filter, assignee_filter) ==
    LET dft == OrderByIdDesc(ChildrenOf(T, pid))
        InStatus(r) == r.status \in status_filter
        HasAssignee(r) == StrContains(r.assignee, assignee_filter)
        byStatus == IF status_filter # {} THEN SelectSeq(dft, InStatus) ELSE dft
    IN  IF assignee_filter # <<>> THEN SelectSeq(byStatus, HasAssignee) ELSE byStatus

ListTasks(pid, status_filter, assignee_filter) ==
    TasksListing(tasks, pid, status_filter, assignee_filter)

\* "SELECT * FROM expenses WHERE project_id=? ORDER BY date DESC, id DESC"
ExpensesListing(E, pid) == OrderByDateDescIdDesc(ChildrenOf(E, pid))
ListExpenses(pid) == ExpensesListing(expenses, pid)

\* "SELECT * FROM incomes WHERE project_id=? ORDER BY date DESC, id DESC"
IncomesListing(I, pid) == OrderByDateDescIdDesc(ChildrenOf(I, pid))
ListIncomes(pid) == IncomesListing(incomes, pid)

(* ------------------------------ dashboard ------------------------------ *)
\* "SELECT * FROM expenses" without the WHERE clause
DfeAllProjects(pid) == InRowidOrder(expenses)
\* the three reads of the Reports tab
Dfe(pid) == InRowidOrder(ChildrenOf(expenses, pid))
Dft(pid) == InRowidOrder(ChildrenOf(tasks, pid))
Dfi(pid) == InRowidOrder(ChildrenOf(incomes, pid))

\* df["amount"].sum()
RECURSIVE SumAmount(_)
SumAmount(df) == IF df = <<>> THEN 0 ELSE Head(df).amount + SumAmount(Tail(df))

\* counting every task that is not "To Do"
RECURSIVE CountNotToDo(_)
CountNotToDo(df) ==
    IF df = <<>> THEN 0
    ELSE (IF Head(df).status # "To Do" THEN 1 ELSE 0) + CountNotToDo(Tail(df))
\* (dft["status"] == "Done").sum()
RECURSIVE CountDone(_)
CountDone(df) ==
    IF df = <<>> THEN 0
    ELSE (IF Head(df).status = "Done" THEN 1 ELSE 0) + CountDone(Tail(df))

\* Fractions stand for the floats: num / den, den > 0.
\* pct_done = (done / total_tasks * 100) if total_tasks else 0
PctDone(done, total_tasks) ==
    IF total_tasks # 0
    THEN [num |-> done * 100, den |-> total_tasks]
    ELSE [num |-> 0, den |-> 1]

\* min(1.0, pct_done), the division by 100 forgotten
ProgressOfPercent(pct_done) ==
    IF pct_done.num > pct_done.den THEN [num |-> 1, den |-> 1] ELSE pct_done
\* min(1.0, pct_done / 100), the argument of st.progress
Progress(pct_done) ==
    LET q == [num |-> pct_done.num, den |-> pct_done.den * 100]
    IN  IF q.num > q.den THEN [num |-> 1, den |-> 1] ELSE q

\* the Reports tab for the chosen project pid: the metrics and what is drawn
Dashboard(pid) ==
    LET dfe == Dfe(pid)
        dft == Dft(pid)
        dfi == Dfi(pid)
        exp_total == IF dfe # <<>> THEN SumAmount(dfe) ELSE 0
        inc_total == IF dfi # <<>> THEN SumAmount(dfi) ELSE 0
        done == IF dft # <<>> THEN CountDone(dft) ELSE 0
        total_tasks == IF dft # <<>> THEN Len(dft) ELSE 0
        pct_done == PctDone(done, total_tasks)
    IN  [inc_total |-> inc_total, exp_total |-> exp_total,
         profit |-> inc_total - exp_total,
         done |-> done, total_tasks |-> total_tasks, pct_done |-> pct_done,
         progress |-> Progress(pct_done), caption_pct |-> pct_done]

(* ------------------------------- inputs ------------------------------- *)
Sep30 == [y |-> 2024, m |-> 9, d |-> 30]
Oct01 == [y |-> 2024, m |-> 10, d |-> 1]
Dates == {Sep30, Oct01}

\* submissions of the "add_project" form: three valid ones (one padded with
\* blanks), an empty name and a name of blanks only
ProjectForms ==
    {[name |-> <<"K">>, status |-> "Planned"],
     [name |-> <<"K">>, status |-> "Completed"],
     [name |-> <<" ", "B", " ">>, status |-> "In Progress"],
     [name |-> <<>>, status |-> "Planned"],
     [name |-> <<" ", "\t">>, status |-> "Planned"]}

OneProjectForm == {[name |-> <<"K">>, status |-> "Planned"]}

\* submissions of the "add_task" form, for the specification of all tabs
FewTaskForms ==
    {[title |-> <<"D">>, status |-> "Done", assignee |-> <<"T", "y">>,
      hours_est |-> 2, hours_spent |-> 1],
     [title |-> <<>>, status |-> "To Do", assignee |-> <<>>,
      hours_est |-> 0, hours_spent |-> 0],
     [title |-> <<" ">>, status |-> "To Do", assignee |-> <<>>,
      hours_est |-> 0, hours_spent |-> 0]}

\* submissions of the "add_task" form, for the Tasks tab and the dashboard
TaskForms ==
    {[title |-> <<"D">>, status |-> "Done", assignee |-> <<"T", "y">>,
      hours_est |-> 2, hours_spent |-> 1],
     [title |-> <<"P">>, status |-> "To Do", assignee |-> <<>>,
      hours_est |-> 0, hours_spent |-> 0],
     [title |-> <<"W">>, status |-> "In Progress", assignee |-> <<"a", "t">>,
      hours_est |-> 1, hours_spent |-> 0]}

FewMoneyForms == {[amount |-> 5, date |-> Oct01]}

\* $400.00 and $150.00; $1000.00 and $0.00
ExpenseForms == {[amount |-> 40000, date |-> Sep30], [amount |-> 15000, date |-> Oct01]}
IncomeForms == {[amount |-> 100000, date |-> Oct01], [amount |-> 0, date |-> Sep30]}

\* parameters handed to execute() directly
StorageTaskRows ==
    {[title |-> <<"D">>, status |-> "Done", assignee |-> <<>>,
      hours_est |-> h, hours_spent |-> 0] : h \in {-1, 1}}
StorageMoneyRows == {[amount |-> a, date |-> Oct01] : a \in {-1, 5}}

Init ==
    /\ projects = {}
    /\ tasks = {}
    /\ expenses = {}
    /\ incomes = {}
    /\ seq = [projects |-> 0, tasks |-> 0, expenses |-> 0, incomes |-> 0]
    /\ last = [op |-> "none", pid |-> 0, input |-> <<>>, msg |-> ""]
    /\ issued = {}

Next ==
    \/ \E f \in ProjectForms : seq.projects < MaxProjects /\ AddProject(f)
    \/ \E pid \in 1..MaxProjects, f \in FewTaskForms :
          seq.tasks + seq.expenses + seq.incomes < MaxRows /\ AddTask(pid, f)
    \/ \E pid \in 1..MaxProjects, f \in FewMoneyForms :
          seq.tasks + seq.expenses + seq.incomes < MaxRows /\ AddExpense(pid, f)
    \/ \E pid \in 1..MaxProjects, f \in FewMoneyForms :
          seq.tasks + seq.expenses + seq.incomes < MaxRows /\ AddIncome(pid, f)
    \/ \E pid \in 1..MaxProjects : DeleteProject(pid)

Spec == Init /\ [][Next]_vars

\* the Projects tab, and the delete
NextProjects ==
    \/ \E f \in ProjectForms : seq.projects < MaxProjectIds /\ AddProject(f)
    \/ \E pid \in 1..MaxProjectIds : DeleteProject(pid)

SpecProjects == Init /\ [][NextProjects]_vars

\* the Projects and Tasks tabs
NextTasks ==
    \/ \E f \in OneProjectForm : seq.projects < MaxProjects /\ AddProject(f)
    \/ \E pid \in 1..MaxProjects, f \in TaskForms :
          seq.tasks < MaxTasks /\ AddTask(pid, f)

SpecTasks == Init /\ [][NextTasks]_vars

\* the Projects, Expenses and Income tabs
NextMoney ==
    \/ \E f \in OneProjectForm : seq.projects < MaxProjects /\ AddProject(f)
    \/ \E pid \in 1..MaxProjects, f \in ExpenseForms :
          seq.expenses < MaxExpenses /\ AddExpense(pid, f)
    \/ \E pid \in 1..MaxProjects, f \in IncomeForms :
          seq.incomes < MaxIncomes /\ AddIncome(pid, f)

SpecMoney == Init /\ [][NextMoney]_vars

\* the create operations and the delete, called with any parameters
NextStorage ==
    \/ \E f \in OneProjectForm : seq.projects < MaxProjects /\ StorageInsertProject(f)
    \/ \E pid \in 1..(MaxProjects + 1), f \in StorageTaskRows :
          seq.tasks + seq.expenses + seq.incomes < MaxRows /\ StorageInsertTask(pid, f)
    \/ \E pid \in 1..(MaxProjects + 1), f \in StorageMoneyRows :
          seq.tasks + seq.expenses + seq.incomes < MaxRows /\ StorageInsertExpense(pid, f)
    \/ \E pid \in 1..(MaxProjects + 1), f \in StorageMoneyRows :
          seq.tasks + seq.expenses + seq.incomes < MaxRows /\ StorageInsertIncome(pid, f)
    \/ \E pid \in 1..MaxProjects : DeleteProject(pid)

SpecStorage == Init /\ [][NextStorage]_vars

(* ------------------------------- claims ------------------------------- *)
AllPids == 1..(MaxProjects + 1)

Children(pid) ==
    ChildrenOf(tasks, pid) \cup ChildrenOf(expenses, pid) \cup ChildrenOf(incomes, pid)

RECURSIVE SumOver(_)
SumOver(rows) ==
    IF rows = {} THEN 0
    ELSE LET r == CHOOSE x \in rows : TRUE IN r.amount + SumOver(rows \ {r})

Range(sq) == {sq[i] : i \in 1..Len(sq)}

\* C1: in every state reachable by the create operations and the delete,
\* every stored task, expense and income has the id of a stored project as
\* its project_id.
NoOrphans ==
    \A r \in tasks \cup expenses \cup incomes : r.project_id \in Ids(projects)

\* an insert for a missing project was just refused, a project has been
\* deleted, and dependents of a surviving project are stored
NoOrphansWitness ==
    /\ last.op = "insert_task" /\ last.msg = "IntegrityError"
    /\ last.pid \in issued \ Ids(projects)
    /\ seq.tasks + seq.expenses + seq.incomes >
           Cardinality(tasks) + Cardinality(expenses) + Cardinality(incomes)
    /\ tasks \cup expenses \cup incomes # {}

\* C2: deleting a stored project P removes P and every task, expense and
\* income of P, so that no listing for any project id returns one of them
\* afterwards, and leaves the listings of every other project as they were.
DeleteCascades ==
    [][(last'.op = "delete_project" /\ last'.pid \in Ids(projects)) =>
        LET P == last'.pid IN
        /\ P \notin Ids(projects')
        /\ \A q \in AllPids :
            /\ Range(TasksListing(tasks', q, {}, <<>>)) \cap ChildrenOf(tasks, P) = {}
            /\ Range(ExpensesListing(expenses', q)) \cap ChildrenOf(expenses, P) = {}
            /\ Range(IncomesListing(incomes', q)) \cap ChildrenOf(incomes, P) = {}
        /\ \A q \in AllPids \ {P} :
            /\ TasksListing(tasks', q, {}, <<>>) = TasksListing(tasks, q, {}, <<>>)
            /\ ExpensesListing(expenses', q) = ExpensesListing(expenses, q)
            /\ IncomesListing(incomes', q) = IncomesListing(incomes, q)
        /\ projects' = {p \in projects : p.id # P}
      ]_vars

\* a project was just deleted, dependents went with it, and another project
\* still has its own
DeleteCascadesWitness ==
    /\ last.op = "delete_project" /\ last.msg = "ok"
    /\ last.pid \in issued \ Ids(projects)
    /\ seq.tasks > Cardinality(tasks)
    /\ seq.incomes > Cardinality(incomes)
    /\ \E q \in Ids(projects) : Children(q) # {}

\* C3: a project submitted with an empty or all-blank name, and a task
\* submitted with an empty or all-blank title, gets the validation message
\* and the stored rows are the same before and after.
EmptyNameRejected ==
    [][/\ (last'.op = "add_project" /\ Strip(last'.input.name) = <<>>) =>
            /\ last'.msg = "Project name is required."
            /\ projects' = projects
            /\ Cardinality(projects') = Cardinality(projects)
            /\ seq' = seq
       /\ (last'.op = "add_task" /\ Strip(last'.input.title) = <<>>) =>
            /\ last'.msg = "Task title required."
            /\ tasks' = tasks
            /\ seq' = seq
      ]_vars

\* a name of blanks only was just refused while projects are stored
EmptyNameRejectedWitness ==
    /\ last.op = "add_project"
    /\ last.input.name = <<" ", "\t">>
    /\ last.msg = "Project name is required."
    /\ projects # {}

\* C4: every stored expense and income has amount >= 0 and every stored task
\* has hours_est >= 0 and hours_spent >= 0, whatever the create operations
\* are called with.
NonNegativeStored ==
    /\ \A r \in expenses \cup incomes : r.amount >= 0
    /\ \A t \in tasks : t.hours_est >= 0 /\ t.hours_spent >= 0

\* C5: after a project is submitted with a non-empty name, the project list
\* starts with a row holding the submitted fields under an id never issued
\* before and larger than every earlier id, followed by the list as it was.
NewProjectListedFirst ==
    [][(last'.op = "add_project" /\ Strip(last'.input.name) # <<>>) =>
        LET old == ListProjects(projects)
            new == ListProjects(projects')
        IN  /\ Len(new) = Len(old) + 1
            /\ new[1].name = last'.input.name
            /\ new[1].status = last'.input.status
            /\ new[1].id \notin issued
            /\ \A i \in issued : i < new[1].id
            /\ Tail(new) = old
            /\ \A i \in 1..(Len(new) - 1) : new[i].id > new[i + 1].id
      ]_vars

\* a project with a blank-padded name was just added after an earlier
\* project was deleted, and two projects are listed
NewProjectListedFirstWitness ==
    /\ last.op = "add_project" /\ last.msg = "Project added."
    /\ last.input.name = <<" ", "B", " ">>
    /\ issued \ Ids(projects) # {}
    /\ Len(ListProjects(projects)) = 2

\* C6: the dashboard of every project reports the sum of its own incomes,
\* the sum of its own expenses (0 when it has none) and their difference as
\* profit, negative whenever the expenses exceed the incomes.
DashboardTotals ==
    \A p \in Ids(projects) :
        LET D == Dashboard(p) IN
        /\ D.inc_total = SumOver(ChildrenOf(incomes, p))
        /\ D.exp_total = SumOver(ChildrenOf(expenses, p))
        /\ D.profit = SumOver(ChildrenOf(incomes, p)) - SumOver(ChildrenOf(expenses, p))
        /\ ChildrenOf(incomes, p) = {} => D.inc_total = 0
        /\ ChildrenOf(expenses, p) = {} => D.exp_total = 0
        /\ D.exp_total > D.inc_total => D.profit < 0

\* one project shows $1000.00 - $400.00 = $600.00 while another, with
\* expenses but no income of weight, shows a loss
DashboardTotalsWitness ==
    \E p, q \in Ids(projects) :
        /\ p # q
        /\ Dashboard(p).inc_total = 100000
        /\ Dashboard(p).exp_total = 40000
        /\ Dashboard(p).profit = 60000
        /\ Dashboard(q).profit < 0

\* C7: for every project the dashboard's total is the number of its tasks,
\* done the number of those with status "Done", and the percentage is
\* done / total * 100 when it has tasks and 0 when it has none; with no
\* tasks, expenses or incomes all six metrics are 0.
DashboardTasks ==
    \A p \in Ids(projects) :
        LET D == Dashboard(p)
            mine == ChildrenOf(tasks, p)
            n == Cardinality(mine)
            k == Cardinality({t \in mine : t.status = "Done"})
        IN  /\ D.total_tasks = n
            /\ D.done = k
            /\ D.pct_done.den > 0
            /\ n > 0 => D.pct_done.num * n = k * 100 * D.pct_done.den
            /\ n = 0 => D.pct_done.num = 0
            /\ Children(p) = {} =>
                 /\ D.inc_total = 0 /\ D.exp_total = 0 /\ D.profit = 0
                 /\ D.done = 0 /\ D.total_tasks = 0 /\ D.pct_done.num = 0

\* one project has 3 tasks Done of 4 and shows 75, another has no task
DashboardTasksWitness ==
    \E p, q \in Ids(projects) :
        /\ Dashboard(p).total_tasks = 4
        /\ Dashboard(p).done = 3
        /\ Dashboard(p).pct_done.num = 75 * Dashboard(p).pct_done.den
        /\ Children(q) = {}

StatusFilters == {{}, {"Done"}, {"To Do", "Blocked"}}
LiteralFilters == {<<>>, <<"T">>, <<"t", "Y">>, <<"z">>}
AssigneeFilters == LiteralFilters \cup {<<".">>}

\* whether the text holds the filter as a substring, ignoring case
HoldsIgnoringCase(text, sub) ==
    \E i \in 1..(Len(text) - Len(sub) + 1) :
        \A j \in 1..Len(sub) : Lower(text[i + j - 1]) = Lower(sub[j])

ListTasksAsClaimed(filters) ==
    \A p \in AllPids, sf \in StatusFilters, af \in filters :
        LET L == ListTasks(p, sf, af)
            wanted == {t \in ChildrenOf(tasks, p) :
                          /\ sf = {} \/ t.status \in sf
                          /\ af = <<>> \/ HoldsIgnoringCase(t.assignee, af)}
        IN  /\ Range(L) = wanted
            /\ Len(L) = Cardinality(wanted)
            /\ \A i \in 1..(Len(L) - 1) : L[i].id > L[i + 1].id

\* C8: the task listing of a project under a status filter and an assignee
\* filter holds exactly the project's tasks whose status is in the status
\* filter (any status when it is empty) and whose assignee holds the filter
\* text as a substring, ignoring case (any assignee when it is empty), in
\* strictly descending id order.
ListTasksFilters == ListTasksAsClaimed(AssigneeFilters)

\* the same with filter texts of letters only
ListTasksLiteralFilters == ListTasksAsClaimed(LiteralFilters)

\* the date a stored date text was printed from
DateOf(text) == CHOOSE d \in Dates : DateStr(d) = text

Later(a, b) ==
    \/ a.y > b.y
    \/ a.y = b.y /\ a.m > b.m
    \/ a.y = b.y /\ a.m = b.m /\ a.d > b.d

DateThenIdDescending(L, mine) ==
    /\ Range(L) = mine
    /\ Len(L) = Cardinality(mine)
    /\ \A i \in 1..(Len(L) - 1) :
          \/ Later(DateOf(L[i].date), DateOf(L[i + 1].date))
          \/ L[i].date = L[i + 1].date /\ L[i].id > L[i + 1].id

\* C9: the expense listing and the income listing of a project hold all and
\* only its records, later dates first and, on the same date, larger ids
\* first.
MoneyListingsOrdered ==
    \A p \in AllPids :
        /\ DateThenIdDescending(ListExpenses(p), ChildrenOf(expenses, p))
        /\ DateThenIdDescending(ListIncomes(p), ChildrenOf(incomes, p))

\* one project lists two expenses with the smaller id first (its date is
\* the later one), another lists two incomes of one date
MoneyListingsOrderedWitness ==
    \E p, q \in Ids(projects) :
        LET E == ListExpenses(p)
            I == ListIncomes(q)
        IN  /\ p # q
            /\ Len(E) = 2 /\ E[1].id < E[2].id
            /\ Len(I) = 2 /\ I[1].date = I[2].date /\ I[1].id > I[2].id

\* C10: for every project 0 <= done <= total and 0 <= percentage <= 100, the
\* fraction given to the progress bar equals percentage / 100, and the
\* caption is given the percentage itself.
ClampNeverBites ==
    \A p \in Ids(projects) :
        LET D == Dashboard(p) IN
        /\ 0 <= D.done /\ D.done <= D.total_tasks
        /\ D.pct_done.den > 0
        /\ 0 <= D.pct_done.num /\ D.pct_done.num <= 100 * D.pct_done.den
        /\ D.progress.den > 0
        /\ D.progress.num * D.pct_done.den * 100 = D.pct_done.num * D.progress.den
        /\ D.caption_pct = D.pct_done

\* one project is at 100 percent with several tasks, another strictly
\* between 0 and 100
ClampNeverBitesWitness ==
    \E p, q \in Ids(projects) :
        /\ Dashboard(p).total_tasks >= 2
        /\ Dashboard(p).done = Dashboard(p).total_tasks
        /\ Dashboard(q).done > 0
        /\ Dashboard(q).done < Dashboard(q).total_tasks
====
